---- MODULE Spec2Model ----
(***************************************************************************)
(* A model of revolt.ext.commands.client: the command registry            *)
(* (all_commands, a dict or a CaseInsensitiveDict), the management API     *)
(* (add_command, remove_command, get_command, load_extension, ...) and the *)
(* process_commands coroutine, split at its await points.                  *)
(*                                                                         *)
(* Strings are sequences of one-character strings, so that str.casefold,   *)
(* str.startswith and slicing are computed character by character.         *)
(***************************************************************************)
EXTENDS Integers, Sequences, FiniteSets, TLC

VARIABLES
    case_insensitive,   \* the case_insensitive argument of __init__
    all_commands,       \* self.all_commands: key -> Command
    cogs,               \* self.cogs: name -> Cog
    cog_of,             \* Command.cog of the commands a cog owns
    extensions,         \* self.extensions: name -> module
    sys_modules,        \* sys.modules, restricted to the extension modules
    importable,         \* the extension modules import_module can find
    run,                \* the process_commands coroutine in flight
    parked,             \* a second process_commands coroutine, suspended
    last                \* the last management API call and how it ended

vars == <<case_insensitive, all_commands, cogs, cog_of, extensions,
          sys_modules, importable, run, parked, last>>

----------------------------------------------------------------------------
(* Bounds *)

\* the most attributes one class of the client type declares
MaxClassAttrs == 1

\* the longest alias list of a command
MaxAliases == 2
\* the longest list of commands declared on the client type
MaxDeclared == 1
\* the longest message content
MaxContentLen == 3
\* the longest list get_prefix returns
MaxPrefixes == 2

----------------------------------------------------------------------------
(* Strings *)

\* str.casefold on the characters that occur: "P" folds to "p"
FoldChar(ch) == IF ch = "P" THEN "p" ELSE ch
casefold(s) == [i \in DOMAIN s |-> FoldChar(s[i])]

\* str.startswith
startswith(s, prefix) ==
    /\ Len(prefix) <= Len(s)
    /\ \A i \in 1..Len(prefix) : s[i] = prefix[i]

\* s[n:]
SliceFrom(s, n) == IF n >= Len(s) THEN <<>> ELSE SubSeq(s, n + 1, Len(s))

Range(f) == {f[i] : i \in DOMAIN f}

SeqsUpTo(S, n) == UNION {[1..k -> S] : k \in 0..n}

----------------------------------------------------------------------------
(* Commands *)

\* the names and aliases commands are built from
Keys == {<<"p">>, <<"P">>, <<"q">>}

HelpName == <<"h", "e", "l", "p">>

\* the keys the API is called with
LookupKeys == Keys \cup {HelpName}

\* Command objects: an alias list holds alternate names, each once
AliasLists(n) ==
    {x \in SeqsUpTo(Keys, MaxAliases) :
        /\ \A i, j \in DOMAIN x : x[i] = x[j] => i = j
        /\ \A i \in DOMAIN x : x[i] # n}

UserCommands ==
    UNION {{[name |-> n, aliases |-> a] : a \in AliasLists(n)} : n \in Keys}

\* HelpCommandImpl(self): the command __init__ registers last
HelpCommandImpl == [name |-> HelpName, aliases |-> <<>>]

Commands == UserCommands \cup {HelpCommandImpl}

\* None, where a Command is expected
NoCommand == [name |-> <<>>, aliases |-> <<>>]

----------------------------------------------------------------------------
(* dict and CaseInsensitiveDict; ci tells which of the two the registry is *)

EmptyDict == [k \in {} |-> NoCommand]

DictStore(d, k, v) == [x \in DOMAIN d \cup {k} |-> IF x = k THEN v ELSE d[x]]

DictDrop(d, k) == [x \in DOMAIN d \ {k} |-> d[x]]

\* a __setitem__ that folds the key in a plain dict too
DictSetItem_always_folds(ci, d, k, v) == DictStore(d, casefold(k), v)

\* CaseInsensitiveDict.__setitem__ / dict.__setitem__
DictSetItem(ci, d, k, v) == DictStore(d, IF ci THEN casefold(k) ELSE k, v)

\* a __getitem__ that does not fold its key
DictGetItem_unfolded(ci, d, k) ==
    IF k \in DOMAIN d THEN [exc |-> "", value |-> d[k]]
    ELSE [exc |-> "KeyError", value |-> NoCommand]

\* CaseInsensitiveDict.__getitem__ / dict.__getitem__
DictGetItem(ci, d, k) ==
    LET kk == IF ci THEN casefold(k) ELSE k
    IN  IF kk \in DOMAIN d THEN [exc |-> "", value |-> d[kk]]
        ELSE [exc |-> "KeyError", value |-> NoCommand]

\* dict.pop(k, None): CaseInsensitiveDict does not override pop, so the key
\* is taken as given in both kinds of registry
DictPop(ci, d, k) ==
    IF k \in DOMAIN d THEN [dict |-> DictDrop(d, k), value |-> d[k]]
    ELSE [dict |-> d, value |-> NoCommand]

----------------------------------------------------------------------------
(* The registry API *)

RECURSIVE SetAliases(_, _, _, _)
SetAliases(ci, d, aliases, command) ==
    IF aliases = <<>> THEN d
    ELSE SetAliases(ci, DictSetItem(ci, d, Head(aliases), command),
                    Tail(aliases), command)

\* a registration that forgets the aliases
add_command_name_only(ci, d, command) ==
    DictSetItem(ci, d, command.name, command)

add_command(ci, d, command) ==
    SetAliases(ci, DictSetItem(ci, d, command.name, command),
               command.aliases, command)

RECURSIVE PopAliases(_, _, _)
PopAliases(ci, d, aliases) ==
    IF aliases = <<>> THEN d
    ELSE PopAliases(ci, DictPop(ci, d, Head(aliases)).dict, Tail(aliases))

remove_command(ci, d, name) ==
    LET popped == DictPop(ci, d, name)
    IN  IF popped.value # NoCommand
        THEN [dict |-> PopAliases(ci, popped.dict, popped.value.aliases),
              value |-> popped.value]
        ELSE popped

get_command(ci, d, name) == DictGetItem(ci, d, name)

\* a listing that keeps only the commands found under their own name
commands_by_name(d) == {d[k] : k \in {x \in DOMAIN d : d[x].name = x}}

\* the commands property: list(set(self.all_commands.values()))
commands(d) == {d[k] : k \in DOMAIN d}

\* CommandsClient.__init__: the declared commands in order, then the help command
RECURSIVE SeedRegistry(_, _, _)
SeedRegistry(ci, d, declared) ==
    IF declared = <<>> THEN d
    ELSE SeedRegistry(ci, add_command(ci, d, Head(declared)), Tail(declared))

ClientInit(ci, declared) ==
    add_command(ci, SeedRegistry(ci, EmptyDict, declared), HelpCommandImpl)

----------------------------------------------------------------------------
(* Command discovery at class creation *)

\* a value in a class __dict__: a Command or something else
NotACommand == [is_command |-> FALSE, command |-> NoCommand]

ClassAttrs ==
    {[is_command |-> TRUE, command |-> c] :
        c \in {u \in UserCommands : Len(u.aliases) <= 1}}
    \cup {NotACommand}

\* the __dict__ of a class, in definition order
ClassDicts == SeqsUpTo(ClassAttrs, MaxClassAttrs)

\* CommandsClient itself declares no command
CommandsClientDict == <<NotACommand>>

\* __mro__ of a client type: a subclass, its base, CommandsClient
Hierarchies ==
    {<<derived, base, CommandsClientDict>> :
        derived \in ClassDicts, base \in ClassDicts}

\* the inner loop of CommandsMeta.__new__: the Command values of one __dict__
RECURSIVE CommandsOf(_)
CommandsOf(dict) ==
    IF dict = <<>> THEN <<>>
    ELSE (IF Head(dict).is_command THEN <<Head(dict).command>> ELSE <<>>)
         \o CommandsOf(Tail(dict))

\* a discovery that walks __mro__ from the most derived class down
RECURSIVE CommandsMeta_mro_order(_)
CommandsMeta_mro_order(mro) ==
    IF mro = <<>> THEN <<>>
    ELSE CommandsOf(Head(mro)) \o CommandsMeta_mro_order(Tail(mro))

\* CommandsMeta.__new__: self._commands, collected over reversed(__mro__)
RECURSIVE CommandsMeta(_)
CommandsMeta(mro) ==
    IF mro = <<>> THEN <<>>
    ELSE CommandsMeta(Tail(mro)) \o CommandsOf(Head(mro))

----------------------------------------------------------------------------
(* State after construction *)

NoKey == <<>>

IdleRun == [pc |-> "idle"]

\* the names load_extension is called with
ExtensionNames == {"a", "b"}

\* an extension module: whether it defines setup and teardown, and whether
\* its setup raises after it has registered the module's command
NoModule == [exists |-> FALSE, setup |-> FALSE, teardown |-> FALSE,
             setup_raises |-> FALSE]

Modules ==
    {m \in [exists : {TRUE}, setup : BOOLEAN, teardown : BOOLEAN,
            setup_raises : BOOLEAN] : m.setup_raises => m.setup}

\* the command setup(client) of the module called name registers, and
\* teardown(client) removes
ModuleCommand(name) ==
    IF name = "a" THEN [name |-> <<"p">>, aliases |-> << <<"q">> >>]
    ELSE [name |-> <<"q">>, aliases |-> <<>>]

\* no API call yet. pre, pre_extensions and pre_cogs are the registry, the
\* extension table and the cog table as the call found them; module is what
\* import_module returned, entries the entry points the call invoked
NoCall == [op |-> "", key |-> NoKey, cmd |-> NoCommand, exc |-> "",
           value |-> NoCommand, pre |-> EmptyDict,
           ext |-> "", module |-> NoModule, entries |-> <<>>,
           pre_extensions |-> <<>>, pre_cogs |-> <<>>,
           mro |-> <<>>, declared |-> <<>>,
           cog_name |-> "", cog |-> [name |-> "", commands |-> <<>>],
           seen |-> [exc |-> "NotCalled", module |-> NoModule]]

DeclaredLists == SeqsUpTo(UserCommands, MaxDeclared)

\* a client built by CommandsClient.__init__, no extension loaded, no message
\* being processed
Init ==
    /\ case_insensitive \in BOOLEAN
    /\ \E declared \in DeclaredLists :
           all_commands = ClientInit(case_insensitive, declared)
    /\ cog_of = <<>>
    /\ cogs = <<>>
    /\ extensions = <<>>
    /\ sys_modules = <<>>
    /\ importable = [name \in ExtensionNames |-> NoModule]
    /\ run = IdleRun
    /\ parked = IdleRun
    /\ last = NoCall

\* a client of a type with one base class, as __init__ leaves it
InitDiscovery ==
    /\ case_insensitive \in BOOLEAN
    /\ \E mro \in Hierarchies :
           /\ all_commands = ClientInit(case_insensitive, CommandsMeta(mro))
           /\ last = [NoCall EXCEPT !.op = "__init__", !.mro = mro,
                                    !.declared = CommandsMeta(mro)]
    /\ cog_of = <<>>
    /\ cogs = <<>>
    /\ extensions = <<>>
    /\ sys_modules = <<>>
    /\ importable = [name \in ExtensionNames |-> NoModule]
    /\ run = IdleRun
    /\ parked = IdleRun

----------------------------------------------------------------------------
(* The registry API, called by the application *)

AddCommand(command) ==
    /\ all_commands' = add_command(case_insensitive, all_commands, command)
    /\ last' = [NoCall EXCEPT !.op = "add_command", !.cmd = command,
                              !.pre = all_commands]
    /\ UNCHANGED <<case_insensitive, cogs, cog_of, extensions,
                   sys_modules, importable, run, parked>>

RemoveCommand(name) ==
    LET r == remove_command(case_insensitive, all_commands, name)
    IN  /\ all_commands' = r.dict
        /\ last' = [NoCall EXCEPT !.op = "remove_command", !.key = name,
                                  !.value = r.value, !.pre = all_commands]
        /\ UNCHANGED <<case_insensitive, cogs, cog_of, extensions,
                       sys_modules, importable, run, parked>>

GetCommand(name) ==
    LET r == get_command(case_insensitive, all_commands, name)
    IN  /\ last' = [NoCall EXCEPT !.op = "get_command", !.key = name,
                                  !.exc = r.exc, !.value = r.value,
                                  !.pre = all_commands]
        /\ UNCHANGED <<case_insensitive, all_commands, cogs, cog_of,
                       extensions, sys_modules, importable, run, parked>>

Next ==
    \/ \E command \in UserCommands : AddCommand(command)
    \/ \E name \in LookupKeys : RemoveCommand(name)
    \/ \E name \in LookupKeys : GetCommand(name)

Spec == Init /\ [][Next]_vars

NextDiscovery == \E name \in LookupKeys : GetCommand(name)

SpecDiscovery == InitDiscovery /\ [][NextDiscovery]_vars

----------------------------------------------------------------------------
(* process_commands: messages, prefixes, the tokenizer *)

ContentChars == {"!", "?", "p", " "}

\* message.content: a str, or something else (None for a message without text)
Messages ==
    {[is_str |-> TRUE, content |-> c] :
        c \in SeqsUpTo(ContentChars, MaxContentLen)}
    \cup {[is_str |-> FALSE, content |-> <<>>]}

\* the candidate prefixes, the empty string among them
PrefixStrings == {<<>>, <<"!">>, <<"?">>, <<"!", "!">>}

\* what get_prefix returns: a str or a list of str
PrefixResults ==
    {[is_str |-> TRUE, str |-> x, list |-> <<>>] : x \in PrefixStrings}
    \cup {[is_str |-> FALSE, str |-> <<>>, list |-> l] :
            l \in SeqsUpTo(PrefixStrings, MaxPrefixes)}

\* if isinstance(prefixes, str): prefixes = [prefixes]
NormalizePrefixes(result) ==
    IF result.is_str THEN <<result.str>> ELSE result.list

\* for prefix in prefixes: if content.startswith(prefix): ...; break / else: return
RECURSIVE FirstMatch(_, _, _)
FirstMatch(content, prefixes, i) ==
    IF i > Len(prefixes) THEN 0
    ELSE IF startswith(content, prefixes[i]) THEN i
    ELSE FirstMatch(content, prefixes, i + 1)

\* a prefix loop that prefers the longest matching candidate
ResolvePrefix_longest(content, prefixes) ==
    LET matching == {i \in DOMAIN prefixes : startswith(content, prefixes[i])}
        i == IF matching = {} THEN 0
             ELSE CHOOSE m \in matching :
                      \A n \in matching :
                          \/ Len(prefixes[n]) < Len(prefixes[m])
                          \/ (Len(prefixes[n]) = Len(prefixes[m]) /\ m <= n)
    IN  IF i = 0
        THEN [matched |-> FALSE, prefix |-> <<>>, content |-> content]
        ELSE [matched |-> TRUE, prefix |-> prefixes[i],
              content |-> SliceFrom(content, Len(prefixes[i]))]

ResolvePrefix(content, prefixes) ==
    LET i == FirstMatch(content, prefixes, 1)
    IN  IF i = 0
        THEN [matched |-> FALSE, prefix |-> <<>>, content |-> content]
        ELSE [matched |-> TRUE, prefix |-> prefixes[i],
              content |-> SliceFrom(content, Len(prefixes[i]))]

\* StringView.get_next_word: skip blanks, then read up to the next blank;
\* StopIteration when the text ends before a word starts
RECURSIVE SkipBlanks(_)
SkipBlanks(s) ==
    IF s # <<>> /\ Head(s) = " " THEN SkipBlanks(Tail(s)) ELSE s

RECURSIVE TakeWord(_)
TakeWord(s) ==
    IF s = <<>> \/ Head(s) = " " THEN <<>>
    ELSE <<Head(s)>> \o TakeWord(Tail(s))

get_next_word(content) ==
    LET rest == SkipBlanks(content)
    IN  IF rest = <<>> THEN [exc |-> "StopIteration", word |-> <<>>]
        ELSE [exc |-> "", word |-> TakeWord(rest)]

----------------------------------------------------------------------------
(* process_commands: what a run does, in order *)

\* one observable step of a run: a registry lookup, a dispatched event, or a
\* call of a check, the handler or the command's error handler
Step(call, event, command, exc, owner, output) ==
    [call |-> call, event |-> event, command |-> command, exc |-> exc,
     owner |-> owner, output |-> output]

LookupStep(name) == Step("get_command", "", NoCommand, "", "", "")

\* Client.dispatch(event, context, ...): the event is handed to the listeners
DispatchStep(event, command, exc, output) ==
    Step("dispatch", event, command, exc, "", output)

\* a call that has come back: exc and owner are the arguments of the error
\* handler, result is what the call returned or raised
CallStep(call, command, exc, owner, result) ==
    Step(call, "", command, exc, owner, result)

NoPrefixes == [is_str |-> FALSE, str |-> <<>>, list |-> <<>>]

\* matched: "" until the prefix loop has run, then "yes" or "no"
NewRun(message) ==
    [pc |-> "get_prefix", message |-> message, prefixes |-> NoPrefixes,
     matched |-> "", prefix |-> <<>>,
     content |-> message.content, command_name |-> <<>>,
     command |-> NoCommand, exc |-> "", outcome |-> "", output |-> "",
     raised |-> "", log |-> <<>>]

Returned(r, output) ==
    [r EXCEPT !.pc = "done", !.outcome = "returned", !.output = output]

Raised(r, exc) ==
    [r EXCEPT !.pc = "done", !.outcome = "raised", !.raised = exc]

Logged(r, step) == [r EXCEPT !.log = Append(@, step)]

\* lines 178-181
Begin(message) ==
    IF ~message.is_str THEN Returned(NewRun(message), "None")
    ELSE NewRun(message)

\* a lookup that lets the KeyError of get_command reach the caller
LocateCommand_unguarded(ci, d, r, name) ==
    LET found == get_command(ci, d, name)
        looked == Logged([r EXCEPT !.command_name = name], LookupStep(name))
    IN  IF found.exc = "KeyError" THEN Raised(looked, "KeyError")
        ELSE [Logged(looked, DispatchStep("command", found.value, "", ""))
                EXCEPT !.pc = "bot_check", !.command = found.value]

\* lines 205-216: look the name up; on a miss dispatch command_error and
\* return, on a hit dispatch command and await bot_check
LocateCommand(ci, d, r, name) ==
    LET found == get_command(ci, d, name)
        looked == Logged([r EXCEPT !.command_name = name], LookupStep(name))
    IN  IF found.exc = "KeyError"
        THEN Returned(Logged(looked,
                 DispatchStep("command_error", NoCommand, "CommandNotFound", "")),
                 "None")
        ELSE [Logged(looked, DispatchStep("command", found.value, "", ""))
                EXCEPT !.pc = "bot_check", !.command = found.value]

\* a pipeline whose prefix loop has no else: return, and goes on with the
\* content as it is when no candidate matches
AfterGetPrefix_no_else(ci, d, r, result) ==
    LET resolved == ResolvePrefix(r.content, NormalizePrefixes(result))
        got == [r EXCEPT !.prefixes = result,
                         !.matched = IF resolved.matched THEN "yes" ELSE "no",
                         !.prefix = resolved.prefix,
                         !.content = resolved.content]
        word == get_next_word(resolved.content)
    IN  IF resolved.content = <<>> THEN Returned(got, "None")
        ELSE IF word.exc = "StopIteration" THEN Returned(got, "None")
        ELSE LocateCommand(ci, d, got, word.word)

\* lines 185-203: from the prefixes get_prefix returned to the command name
AfterGetPrefix(ci, d, r, result) ==
    LET resolved == ResolvePrefix(r.content, NormalizePrefixes(result))
        got == [r EXCEPT !.prefixes = result]
        stripped == [got EXCEPT !.matched = "yes",
                                !.prefix = resolved.prefix,
                                !.content = resolved.content]
        word == get_next_word(resolved.content)
    IN  IF ~resolved.matched
        THEN Returned([got EXCEPT !.matched = "no"], "None")
        ELSE IF resolved.content = <<>> THEN Returned(stripped, "None")
        ELSE IF word.exc = "StopIteration" THEN Returned(stripped, "None")
        ELSE LocateCommand(ci, d, stripped, word.word)

\* command.cog or self
Owner(cogs_of, command) ==
    IF command \in DOMAIN cogs_of THEN cogs_of[command] ELSE "client"

\* the except clause entered with exception exc: await command._error_handler
EnterErrorRoute(r, exc) == [r EXCEPT !.pc = "error_handler", !.exc = exc]

\* lines 218-219
AfterBotCheck(r, outcome) ==
    LET called == Logged(r, CallStep("bot_check", r.command, "", "", outcome))
    IN  CASE outcome = "True" -> [called EXCEPT !.pc = "can_run"]
          [] outcome = "False" -> EnterErrorRoute(called, "CheckError(global)")
          [] OTHER -> EnterErrorRoute(called, outcome)

\* lines 221-222
AfterCanRun(r, outcome) ==
    LET called == Logged(r, CallStep("can_run", r.command, "", "", outcome))
    IN  CASE outcome = "True" -> [called EXCEPT !.pc = "invoke"]
          [] outcome = "False" -> EnterErrorRoute(called, "CheckError(checks)")
          [] OTHER -> EnterErrorRoute(called, outcome)

\* an invoke step that looks the command up in the registry again and invokes
\* what the registry holds by then
AfterInvoke_looks_up_again(r, outcome) ==
    LET found == get_command(case_insensitive, all_commands, r.command_name)
        called == Logged(r, CallStep("invoke", found.value, "", "",
                                     IF outcome.exc # "" THEN outcome.exc
                                     ELSE outcome.output))
    IN  IF found.exc # "" THEN Raised(r, found.exc)
        ELSE IF outcome.exc # "" THEN EnterErrorRoute(called, outcome.exc)
        ELSE Returned(Logged(called,
                 DispatchStep("after_command_invoke", found.value, "",
                              outcome.output)),
                 outcome.output)

\* an invoke step that dispatches the handler's value and returns None
AfterInvoke_drops_value(r, outcome) ==
    LET called == Logged(r, CallStep("invoke", r.command, "", "",
                                     IF outcome.exc # "" THEN outcome.exc
                                     ELSE outcome.output))
    IN  IF outcome.exc # "" THEN EnterErrorRoute(called, outcome.exc)
        ELSE Returned(Logged(called,
                 DispatchStep("after_command_invoke", r.command, "",
                              outcome.output)),
                 "None")

\* lines 224-227
AfterInvoke(r, outcome) ==
    LET called == Logged(r, CallStep("invoke", r.command, "", "",
                                     IF outcome.exc # "" THEN outcome.exc
                                     ELSE outcome.output))
    IN  IF outcome.exc # "" THEN EnterErrorRoute(called, outcome.exc)
        ELSE Returned(Logged(called,
                 DispatchStep("after_command_invoke", r.command, "",
                              outcome.output)),
                 outcome.output)

\* lines 229-230: an exception of the error handler leaves the except clause
\* before command_error is dispatched
AfterErrorHandler(cogs_of, r, outcome) ==
    LET called == Logged(r, CallStep("error_handler", r.command, r.exc,
                                     Owner(cogs_of, r.command), outcome))
    IN  IF outcome # "" THEN Raised(called, outcome)
        ELSE Returned(Logged(called,
                 DispatchStep("command_error", r.command, r.exc, "")),
                 "None")

----------------------------------------------------------------------------
(* process_commands as a coroutine: one action per stretch between awaits *)

CheckOutcomes == {"True", "False", "CheckRaised"}

InvokeOutcomes ==
    {[exc |-> "", output |-> o] : o \in {"None", "pong"}}
    \cup {[exc |-> "HandlerRaised", output |-> ""]}

ErrorHandlerOutcomes == {"", "ErrorHandlerRaised"}

\* get_prefix as the class defines it (line 106)
GetPrefixNotImplemented == "NotImplementedError"

UnchangedClient ==
    UNCHANGED <<case_insensitive, all_commands, cogs, cog_of, extensions,
                sys_modules, importable, parked, last>>

ProcessCommands(message) ==
    /\ run.pc = "idle"
    /\ run' = Begin(message)
    /\ UnchangedClient

GetPrefixReturns(result) ==
    /\ run.pc = "get_prefix"
    /\ run' = AfterGetPrefix(case_insensitive, all_commands, run, result)
    /\ UnchangedClient

GetPrefixRaises ==
    /\ run.pc = "get_prefix"
    /\ run' = Raised(run, GetPrefixNotImplemented)
    /\ UnchangedClient

BotCheckReturns(outcome) ==
    /\ run.pc = "bot_check"
    /\ run' = AfterBotCheck(run, outcome)
    /\ UnchangedClient

CanRunReturns(outcome) ==
    /\ run.pc = "can_run"
    /\ run' = AfterCanRun(run, outcome)
    /\ UnchangedClient

InvokeReturns(outcome) ==
    /\ run.pc = "invoke"
    /\ run' = AfterInvoke(run, outcome)
    /\ UnchangedClient

ErrorHandlerReturns(outcome) ==
    /\ run.pc = "error_handler"
    /\ run' = AfterErrorHandler(cog_of, run, outcome)
    /\ UnchangedClient

\* the clients messages are dispatched on: the type declares at most one
\* command, without aliases, which a cog may own
DispatchDeclared ==
    {<<>>} \cup {<<c>> : c \in {u \in UserCommands : u.aliases = <<>>}}

InitDispatch ==
    /\ case_insensitive \in BOOLEAN
    /\ \E declared \in DispatchDeclared :
           /\ all_commands = ClientInit(case_insensitive, declared)
           /\ cog_of \in {<<>>} \cup
                  {[c \in {declared[i]} |-> "cog"] : i \in DOMAIN declared}
    /\ cogs = <<>>
    /\ extensions = <<>>
    /\ sys_modules = <<>>
    /\ importable = [name \in ExtensionNames |-> NoModule]
    /\ run = IdleRun
    /\ parked = IdleRun
    /\ last = NoCall

NextDispatch ==
    \/ \E message \in Messages : ProcessCommands(message)
    \/ \E result \in PrefixResults : GetPrefixReturns(result)
    \/ GetPrefixRaises
    \/ \E outcome \in CheckOutcomes : BotCheckReturns(outcome)
    \/ \E outcome \in CheckOutcomes : CanRunReturns(outcome)
    \/ \E outcome \in InvokeOutcomes : InvokeReturns(outcome)
    \/ \E outcome \in ErrorHandlerOutcomes : ErrorHandlerReturns(outcome)

SpecDispatch == InitDispatch /\ [][NextDispatch]_vars

----------------------------------------------------------------------------
(* Two process_commands coroutines and registry changes, interleaved *)

\* the event loop resumes the other coroutine: every pc of a run is an await
Switch ==
    /\ run # parked
    /\ run' = parked
    /\ parked' = run
    /\ UNCHANGED <<case_insensitive, all_commands, cogs, cog_of, extensions,
                   sys_modules, importable, last>>

\* both coroutines process the message "p" under the empty prefix
InterleavedMessages == {[is_str |-> TRUE, content |-> <<"p">>]}

InterleavedPrefixes == {[is_str |-> TRUE, str |-> <<>>, list |-> <<>>]}

\* the commands registered, removed and registered again meanwhile
InterleavedCommands ==
    {[name |-> <<"p">>, aliases |-> <<>>],
     [name |-> <<"p">>, aliases |-> << <<"q">> >>]}

InitInterleaved ==
    /\ case_insensitive \in BOOLEAN
    /\ \E command \in InterleavedCommands :
           all_commands = ClientInit(case_insensitive, <<command>>)
    /\ cog_of = <<>>
    /\ cogs = <<>>
    /\ extensions = <<>>
    /\ sys_modules = <<>>
    /\ importable = [name \in ExtensionNames |-> NoModule]
    /\ run = IdleRun
    /\ parked = IdleRun
    /\ last = NoCall

NextInterleaved ==
    \/ \E message \in InterleavedMessages : ProcessCommands(message)
    \/ \E result \in InterleavedPrefixes : GetPrefixReturns(result)
    \/ \E outcome \in CheckOutcomes : BotCheckReturns(outcome)
    \/ \E outcome \in CheckOutcomes : CanRunReturns(outcome)
    \/ \E outcome \in InvokeOutcomes : InvokeReturns(outcome)
    \/ \E outcome \in ErrorHandlerOutcomes : ErrorHandlerReturns(outcome)
    \/ Switch
    \/ \E command \in InterleavedCommands : AddCommand(command)
    \/ \E name \in {<<"p">>, <<"q">>} : RemoveCommand(name)

SpecInterleaved == InitInterleaved /\ [][NextInterleaved]_vars

----------------------------------------------------------------------------
(* Extensions *)

\* importlib.import_module(name): the module cached in sys.modules, else the
\* one found on the path, which is then cached
import_module(mods, found, name) ==
    IF name \in DOMAIN mods
    THEN [exc |-> "", module |-> mods[name], sys_modules |-> mods]
    ELSE IF ~found[name].exists
    THEN [exc |-> "ModuleNotFoundError", module |-> NoModule,
          sys_modules |-> mods]
    ELSE [exc |-> "", module |-> found[name],
          sys_modules |-> [n \in DOMAIN mods \cup {name} |->
                              IF n = name THEN found[name] ELSE mods[n]]]

\* isinstance(extension, ExtensionProtocol): the module has a setup attribute
IsExtension(module) == module.setup

\* get_extension(name): self.extensions[name]
get_extension(exts, name) ==
    IF name \in DOMAIN exts THEN [exc |-> "", module |-> exts[name]]
    ELSE [exc |-> "KeyError", module |-> NoModule]

\* setup has not looked the extension up
NotCalled == [exc |-> "NotCalled", module |-> NoModule]

\* what a management call leaves behind; seen is what get_extension(name)
\* gave setup when setup ran
CallResult(exc, d, exts, mods, module, entries) ==
    [exc |-> exc, dict |-> d, extensions |-> exts, sys_modules |-> mods,
     module |-> module, entries |-> entries, seen |-> NotCalled]

\* extension.setup(self): looks itself up with get_extension, registers the
\* module's command, then raises if it is a raising setup
RunSetup(ci, d, exts, name, module) ==
    [dict |-> add_command(ci, d, ModuleCommand(name)),
     exc |-> IF module.setup_raises THEN "SetupRaised" ELSE "",
     seen |-> get_extension(exts, name)]

\* a load_extension that records the module only once setup has returned
load_extension_setup_first(ci, d, exts, mods, found, name) ==
    LET imported == import_module(mods, found, name)
        extension == imported.module
        recorded == [n \in DOMAIN exts \cup {name} |->
                        IF n = name THEN extension ELSE exts[n]]
        ran == RunSetup(ci, d, exts, name, extension)
    IN  IF imported.exc # ""
        THEN CallResult(imported.exc, d, exts, mods, NoModule, <<>>)
        ELSE IF ~IsExtension(extension)
        THEN CallResult("MissingSetup", d, exts, imported.sys_modules,
                        extension, <<>>)
        ELSE [CallResult(ran.exc, ran.dict,
                         IF ran.exc # "" THEN exts ELSE recorded,
                         imported.sys_modules, extension, <<"setup">>)
                EXCEPT !.seen = ran.seen]

\* a load_extension that records the module before it looks for setup
load_extension_record_first(ci, d, exts, mods, found, name) ==
    LET imported == import_module(mods, found, name)
        extension == imported.module
        recorded == [n \in DOMAIN exts \cup {name} |->
                        IF n = name THEN extension ELSE exts[n]]
        ran == RunSetup(ci, d, recorded, name, extension)
    IN  IF imported.exc # ""
        THEN CallResult(imported.exc, d, exts, mods, NoModule, <<>>)
        ELSE IF ~IsExtension(extension)
        THEN CallResult("MissingSetup", d, recorded, imported.sys_modules,
                        extension, <<>>)
        ELSE [CallResult(ran.exc, ran.dict, recorded, imported.sys_modules,
                         extension, <<"setup">>)
                EXCEPT !.seen = ran.seen]

load_extension(ci, d, exts, mods, found, name) ==
    LET imported == import_module(mods, found, name)
        extension == imported.module
        recorded == [n \in DOMAIN exts \cup {name} |->
                        IF n = name THEN extension ELSE exts[n]]
        ran == RunSetup(ci, d, recorded, name, extension)
    IN  IF imported.exc # ""
        THEN CallResult(imported.exc, d, exts, mods, NoModule, <<>>)
        ELSE IF ~IsExtension(extension)
        THEN CallResult("MissingSetup", d, exts, imported.sys_modules,
                        extension, <<>>)
        ELSE [CallResult(ran.exc, ran.dict, recorded, imported.sys_modules,
                         extension, <<"setup">>)
                EXCEPT !.seen = ran.seen]

\* extension.teardown(self)
RunTeardown(ci, d, name) == remove_command(ci, d, ModuleCommand(name).name).dict

unload_extension(ci, d, exts, mods, name) ==
    LET extension == exts[name]
        popped == [n \in DOMAIN exts \ {name} |-> exts[n]]
        dropped == [n \in DOMAIN mods \ {name} |-> mods[n]]
    IN  IF name \notin DOMAIN exts
        THEN CallResult("KeyError", d, exts, mods, NoModule, <<>>)
        ELSE IF name \notin DOMAIN mods
        THEN CallResult("KeyError", d, popped, mods, extension, <<>>)
        ELSE IF extension.teardown
        THEN CallResult("", RunTeardown(ci, d, name), popped, dropped,
                        extension, <<"teardown">>)
        ELSE CallResult("", d, popped, dropped, extension, <<>>)

\* a reload that puts everything back when the load step fails
reload_extension_atomic(ci, d, exts, mods, found, name) ==
    LET unloaded == unload_extension(ci, d, exts, mods, name)
        loaded == load_extension(ci, unloaded.dict, unloaded.extensions,
                                 unloaded.sys_modules, found, name)
    IN  IF unloaded.exc # "" THEN unloaded
        ELSE IF loaded.exc # ""
        THEN CallResult(loaded.exc, d, exts, mods, loaded.module,
                        unloaded.entries \o loaded.entries)
        ELSE [loaded EXCEPT !.entries = unloaded.entries \o @]

reload_extension(ci, d, exts, mods, found, name) ==
    LET unloaded == unload_extension(ci, d, exts, mods, name)
        loaded == load_extension(ci, unloaded.dict, unloaded.extensions,
                                 unloaded.sys_modules, found, name)
    IN  IF unloaded.exc # "" THEN unloaded
        ELSE [loaded EXCEPT !.entries = unloaded.entries \o @]

ExtensionCall(op, name, result) ==
    /\ all_commands' = result.dict
    /\ extensions' = result.extensions
    /\ sys_modules' = result.sys_modules
    /\ last' = [NoCall EXCEPT !.op = op, !.ext = name, !.exc = result.exc,
                              !.module = result.module,
                              !.entries = result.entries,
                              !.seen = result.seen,
                              !.pre = all_commands,
                              !.pre_extensions = extensions,
                              !.pre_cogs = cogs]
    /\ UNCHANGED <<case_insensitive, cogs, cog_of, importable, run,
                   parked>>

LoadExtension(name) ==
    ExtensionCall("load_extension", name,
        load_extension(case_insensitive, all_commands, extensions,
                       sys_modules, importable, name))

UnloadExtension(name) ==
    ExtensionCall("unload_extension", name,
        unload_extension(case_insensitive, all_commands, extensions,
                         sys_modules, name))

ReloadExtension(name) ==
    ExtensionCall("reload_extension", name,
        reload_extension(case_insensitive, all_commands, extensions,
                         sys_modules, importable, name))

\* the file of an extension module is edited, added or deleted on disk; a
\* module already imported stays in sys.modules as it was
EditModule(name, module) ==
    /\ module # importable[name]
    /\ importable' = [importable EXCEPT ![name] = module]
    /\ UNCHANGED <<case_insensitive, all_commands, cogs, cog_of, extensions,
                   sys_modules, run, parked, last>>

\* a fresh client and the extension modules that can be imported
InitExtensions ==
    /\ case_insensitive \in BOOLEAN
    /\ all_commands = ClientInit(case_insensitive, <<>>)
    /\ cogs = <<>>
    /\ cog_of = <<>>
    /\ extensions = <<>>
    /\ sys_modules = <<>>
    /\ importable \in [ExtensionNames -> Modules \cup {NoModule}]
    /\ run = IdleRun
    /\ parked = IdleRun
    /\ last = NoCall

NextExtensions ==
    \/ \E name \in ExtensionNames : LoadExtension(name)
    \/ \E name \in ExtensionNames : UnloadExtension(name)
    \/ \E name \in ExtensionNames : ReloadExtension(name)
    \/ \E name \in ExtensionNames :
           \E module \in Modules \cup {NoModule} : EditModule(name, module)

SpecExtensions == InitExtensions /\ [][NextExtensions]_vars

----------------------------------------------------------------------------
(* Cogs *)

NoCog == [name |-> "", commands |-> <<>>]

CogNames == {"A", "B"}

\* the cogs add_cog is called with; two of them share a name, two of them
\* own a command called p
CogPool ==
    {[name |-> "A",
      commands |-> << [name |-> <<"p">>, aliases |-> << <<"q">> >>] >>],
     [name |-> "A",
      commands |-> << [name |-> <<"P">>, aliases |-> <<>>] >>],
     [name |-> "B",
      commands |-> << [name |-> <<"p">>, aliases |-> <<>>],
                      [name |-> <<"q">>, aliases |-> <<>>] >>]}

\* the state a cog hook works on
CogState(d, table, owners) == [dict |-> d, cogs |-> table, cog_of |-> owners]

\* Cog._inject, the loop: set each owned command's cog and register it
RECURSIVE InjectCommands(_, _, _, _, _)
InjectCommands(ci, d, owners, cog_name, owned) ==
    IF owned = <<>> THEN [dict |-> d, cog_of |-> owners]
    ELSE InjectCommands(ci, add_command(ci, d, Head(owned)),
                        DictStore(owners, Head(owned), cog_name),
                        cog_name, Tail(owned))

\* Cog._inject: register the owned commands, then record the cog by name
Cog_inject(ci, st, cog) ==
    LET done == InjectCommands(ci, st.dict, st.cog_of, cog.name,
                               cog.commands)
    IN  CogState(done.dict, DictStore(st.cogs, cog.name, cog), done.cog_of)

\* Cog._uninject, the loop: remove each owned command, clear its cog
RECURSIVE UninjectCommands(_, _, _, _)
UninjectCommands(ci, d, owners, owned) ==
    IF owned = <<>> THEN [dict |-> d, cog_of |-> owners]
    ELSE UninjectCommands(ci, remove_command(ci, d, Head(owned).name).dict,
                          DictDrop(owners, Head(owned)), Tail(owned))

Cog_uninject(ci, st, cog) ==
    LET done == UninjectCommands(ci, st.dict, st.cog_of, cog.commands)
    IN  CogState(done.dict, st.cogs, done.cog_of)

\* how a cog call ended: the exception, the state, the hooks called, the
\* cog returned
CogResult(exc, st, entries, cog) ==
    [exc |-> exc, state |-> st, entries |-> entries, cog |-> cog]

add_cog(ci, st, cog) ==
    CogResult("", Cog_inject(ci, st, cog), <<"_inject">>, NoCog)

\* a remove_cog that reads the cog table instead of popping from it
remove_cog_keeps_entry(ci, st, cog_name) ==
    IF cog_name \notin DOMAIN st.cogs
    THEN CogResult("KeyError", st, <<>>, NoCog)
    ELSE CogResult("", Cog_uninject(ci, st, st.cogs[cog_name]),
                   <<"_uninject">>, st.cogs[cog_name])

remove_cog(ci, st, cog_name) ==
    IF cog_name \notin DOMAIN st.cogs
    THEN CogResult("KeyError", st, <<>>, NoCog)
    ELSE LET cog == st.cogs[cog_name]
             popped == CogState(st.dict, DictDrop(st.cogs, cog_name),
                                st.cog_of)
         IN  CogResult("", Cog_uninject(ci, popped, cog), <<"_uninject">>,
                       cog)

CogCall(op, cog_name, result) ==
    /\ all_commands' = result.state.dict
    /\ cogs' = result.state.cogs
    /\ cog_of' = result.state.cog_of
    /\ last' = [NoCall EXCEPT !.op = op, !.cog_name = cog_name,
                              !.exc = result.exc, !.cog = result.cog,
                              !.entries = result.entries,
                              !.pre = all_commands, !.pre_cogs = cogs]
    /\ UNCHANGED <<case_insensitive, extensions, sys_modules, importable,
                   run, parked>>

AddCog(cog) ==
    CogCall("add_cog", cog.name,
            add_cog(case_insensitive,
                    CogState(all_commands, cogs, cog_of), cog))

RemoveCog(cog_name) ==
    CogCall("remove_cog", cog_name,
            remove_cog(case_insensitive,
                       CogState(all_commands, cogs, cog_of), cog_name))

NextCogs ==
    \/ \E cog \in CogPool : AddCog(cog)
    \/ \E cog_name \in CogNames : RemoveCog(cog_name)

SpecCogs == Init /\ [][NextCogs]_vars

----------------------------------------------------------------------------
(* Claims about the registry *)

KeysOf(command) == {command.name} \cup Range(command.aliases)

Found(command) == [exc |-> "", value |-> command]

NotFound == [exc |-> "KeyError", value |-> NoCommand]

Lookup(name) == get_command(case_insensitive, all_commands, name)

LookupBefore(name) == get_command(case_insensitive, last.pre, name)

CaseVariants(name) == {k \in LookupKeys : casefold(k) = casefold(name)}

\* C1: right after add_command(c), get_command(c.name) and get_command(a) for
\* every alias a of c return c, whatever the registry held before.
C1_AddThenGet ==
    last.op = "add_command" =>
        \A k \in KeysOf(last.cmd) : Lookup(k) = Found(last.cmd)

\* an add_command of a command with two aliases that took over a key which
\* resolved to another command before
C1_Witness ==
    /\ last.op = "add_command"
    /\ Len(last.cmd.aliases) = 2
    /\ \E k \in KeysOf(last.cmd) :
           /\ LookupBefore(k).exc = ""
           /\ LookupBefore(k).value # last.cmd
           /\ Lookup(k) = Found(last.cmd)

\* C2 (as claimed): remove_command(a) with a an alias of a registered command
\* c leaves neither c.name nor any alias of c in the registry.
C2_RemoveByAliasRemovesAll ==
    ( /\ last.op = "remove_command"
      /\ last.value # NoCommand
      /\ last.key \in Range(last.value.aliases)
      /\ \A k \in KeysOf(last.value) : LookupBefore(k) = Found(last.value) )
    => \A k \in KeysOf(last.value) : Lookup(k) = NotFound

\* C3: in a case-insensitive client, after add_command(c) every case variant
\* of c.name resolves to c; in a case-sensitive client a differently-cased key
\* that is no alias of c and was not registered before stays not-found.
C3_CaseVariantLookup ==
    last.op = "add_command" =>
        \A k \in CaseVariants(last.cmd.name) :
            IF case_insensitive
            THEN Lookup(k) = Found(last.cmd)
            ELSE ( /\ k \notin KeysOf(last.cmd)
                   /\ LookupBefore(k) = NotFound ) => Lookup(k) = NotFound

\* a case-insensitive client in which a command named "P" was added and the
\* differently-cased key "p" resolves to it
C3_Witness ==
    /\ case_insensitive
    /\ last.op = "add_command"
    /\ last.cmd.name = <<"P">>
    /\ Lookup(<<"p">>) = Found(last.cmd)

\* C4 (as claimed): in a case-insensitive registry remove_command(k), k any
\* case variant of the name of a registered command, returns that command,
\* and afterwards no case variant of the name resolves.
C4_RemoveFoldsKey ==
    ( /\ case_insensitive
      /\ last.op = "remove_command"
      /\ LookupBefore(last.key).exc = ""
      /\ last.key \in CaseVariants(LookupBefore(last.key).value.name) )
    => /\ last.value = LookupBefore(last.key).value
       /\ \A k \in CaseVariants(last.key) : Lookup(k) = NotFound

\* the key the registry stores a name or alias under
StoredKey(k) == IF case_insensitive THEN casefold(k) ELSE k

\* command was registered before the last call: each of its keys resolved to it
RegisteredBefore(command) ==
    \A k \in KeysOf(command) : LookupBefore(k) = Found(command)

\* the commands registered before an add_command of another command of the
\* same name
SameNameBefore ==
    IF last.op # "add_command" THEN {}
    ELSE {c \in commands(last.pre) :
            /\ c # last.cmd
            /\ c.name = last.cmd.name
            /\ RegisteredBefore(c)}

\* C11 (as claimed): when a second command of the same name is registered,
\* get_command(name) returns the second and the commands listing holds both.
C11_ListingKeepsBoth ==
    \A first \in SameNameBefore :
        /\ Lookup(last.cmd.name) = Found(last.cmd)
        /\ {first, last.cmd} \subseteq commands(all_commands)

\* C11 (amended): get_command(name) returns the second and the listing holds
\* the second; it holds the first exactly when an alias of the first is stored
\* under a key the second does not register.
C11_ListingKeepsAliased ==
    \A first \in SameNameBefore :
        /\ Lookup(last.cmd.name) = Found(last.cmd)
        /\ last.cmd \in commands(all_commands)
        /\ first \in commands(all_commands) <=>
               \E a \in Range(first.aliases) :
                   StoredKey(a) \notin {StoredKey(k) : k \in KeysOf(last.cmd)}

\* a second command of the same name was added and the first is still listed
C11_Witness ==
    \E first \in SameNameBefore :
        /\ first \in commands(all_commands)
        /\ last.cmd \in commands(all_commands)
        /\ Lookup(first.name) = Found(last.cmd)

\* C12: every key of the registry maps to a command that has the key, up to
\* case folding in a case-insensitive registry, as its name or as an alias.
C12_KeysBelongToCommand ==
    \A k \in DOMAIN all_commands :
        \E x \in KeysOf(all_commands[k]) : StoredKey(x) = k

\* remove_command returned a command and one of its keys is still registered
C12_Witness ==
    /\ last.op = "remove_command"
    /\ last.value # NoCommand
    /\ \E k \in DOMAIN all_commands : all_commands[k] = last.value

\* C18 (as claimed): remove_command removes only keys that mapped to the
\* command it returns; every key of another command resolves as before.
C18_RemoveLeavesOthers ==
    last.op = "remove_command" =>
        \A k \in DOMAIN last.pre :
            last.pre[k] # last.value =>
                /\ k \in DOMAIN all_commands
                /\ all_commands[k] = last.pre[k]

\* the commands a class __dict__ declares
DeclaredIn(dict) == {c \in Commands : \E i \in DOMAIN dict :
                        dict[i].is_command /\ dict[i].command = c}

\* <<base command, subclass command>> of one name, the subclass declaring
\* nothing else under that key
Redeclared ==
    IF last.op # "__init__" THEN {}
    ELSE {bd \in DeclaredIn(last.mro[2]) \X DeclaredIn(last.mro[1]) :
            /\ bd[1] # bd[2]
            /\ bd[1].name = bd[2].name
            /\ \A e \in DeclaredIn(last.mro[1]) \ {bd[2]} :
                   StoredKey(bd[2].name) \notin
                       {StoredKey(k) : k \in KeysOf(e)}}

C14_RemoveCog ==
    last.op = "remove_cog" =>
        IF last.cog_name \notin DOMAIN last.pre_cogs
        THEN /\ last.exc = "KeyError"
             /\ last.entries = <<>>
             /\ cogs = last.pre_cogs
             /\ all_commands = last.pre
        ELSE /\ last.exc = ""
             /\ last.entries = <<"_uninject">>
             /\ last.cog = last.pre_cogs[last.cog_name]
             /\ last.cog_name \notin DOMAIN cogs

\* remove_cog returned a cog while another cog stays recorded
C14_Witness ==
    /\ last.op = "remove_cog"
    /\ last.cog # NoCog
    /\ last.entries = <<"_uninject">>
    /\ cogs # <<>>

----------------------------------------------------------------------------
(* Claims about process_commands *)

\* the candidate prefixes of the run, a single str read as a one-element list
Candidates ==
    IF run.prefixes.is_str THEN <<run.prefixes.str>> ELSE run.prefixes.list

Calls(name) == {i \in DOMAIN run.log : run.log[i].call = name}

Dispatches(event) ==
    {i \in DOMAIN run.log :
        run.log[i].call = "dispatch" /\ run.log[i].event = event}

\* C5: the prefix selected is the first candidate, in the order given, that
\* the message content starts with, also when a later candidate matches more
\* of it, and exactly that prefix is stripped from the front of the content.
C5_FirstMatchingPrefix ==
    run.pc # "idle" /\ run.matched = "yes" =>
        \E i \in DOMAIN Candidates :
            /\ run.prefix = Candidates[i]
            /\ startswith(run.message.content, Candidates[i])
            /\ \A j \in 1..(i - 1) :
                   ~startswith(run.message.content, Candidates[j])
            /\ run.prefix \o run.content = run.message.content

\* prefixes ["!", "!!"] and content "!!p": "!" is selected although "!!"
\* matches too, and "!p" is left
C5_Witness ==
    /\ run.pc # "idle"
    /\ run.matched = "yes"
    /\ run.message.content = <<"!", "!", "p">>
    /\ Candidates = << <<"!">>, <<"!", "!">> >>
    /\ run.prefix = <<"!">>
    /\ run.content = <<"!", "p">>

\* the run stopped before a command name was extracted: no candidate prefix
\* matched, or nothing is left after the prefix, or the tokenizer found no word
QuietCase ==
    /\ run.pc = "done"
    /\ run.matched # ""
    /\ \/ \A i \in DOMAIN Candidates :
              ~startswith(run.message.content, Candidates[i])
       \/ /\ run.matched = "yes"
          /\ \/ run.content = <<>>
             \/ get_next_word(run.content).exc = "StopIteration"

\* C6: such a run ends quietly: no registry lookup, no event, no call of a
\* check, handler or error handler, and it returns to its caller.
C6_QuietStop ==
    QuietCase =>
        /\ run.outcome = "returned"
        /\ run.output = "None"
        /\ run.log = <<>>

\* a run stopped by the tokenizer: the prefix matched and only a blank is left
C6_Witness ==
    /\ QuietCase
    /\ run.matched = "yes"
    /\ run.content = <<" ">>

\* the run extracted a command name that is no key of the registry
MissCase ==
    /\ run.pc # "idle"
    /\ run.command_name # <<>>
    /\ get_command(case_insensitive, all_commands, run.command_name) = NotFound

\* C7: on a registry miss the run does one lookup, dispatches exactly one
\* command_error carrying CommandNotFound with a context bound to no command,
\* nothing else, and returns normally.
C7_CommandNotFound ==
    MissCase =>
        /\ run.pc = "done"
        /\ run.outcome = "returned"
        /\ run.log = << LookupStep(run.command_name),
                        DispatchStep("command_error", NoCommand,
                                     "CommandNotFound", "") >>

\* a case-sensitive client whose only user command is "P" gets "!p"
C7_Witness ==
    /\ MissCase
    /\ ~case_insensitive
    /\ <<"P">> \in DOMAIN all_commands
    /\ run.command_name = <<"p">>

\* the run located a command and is over
LocatedAndDone == run.pc = "done" /\ run.command # NoCommand

\* bot_check returned False in this run
GlobalCheckFailed ==
    /\ run.pc # "idle"
    /\ \E i \in Calls("bot_check") : run.log[i].output = "False"

\* C8 (as claimed): when bot_check returns false the handler is not invoked,
\* the command's checks are not evaluated, and the CheckError reaches both
\* the command's error handler and the command_error event.
C8_GlobalCheckFails ==
    GlobalCheckFailed =>
        /\ Calls("invoke") = {}
        /\ Calls("can_run") = {}
        /\ run.pc = "done" =>
               /\ \E i \in Calls("error_handler") :
                      run.log[i].exc = "CheckError(global)"
               /\ \E i \in Dispatches("command_error") :
                      run.log[i].exc = "CheckError(global)"

\* C9 (as claimed): a run that located a command always ends by returning to
\* its caller, whatever the checks, the handler and the error handler did.
C9_NothingPropagates ==
    LocatedAndDone => run.outcome = "returned"

\* the run in flight has located a command
Located == run.pc # "idle" /\ run.command # NoCommand

\* every step of the first kind precedes every step of the second kind
Precede(first, second) == \A i \in first : \A j \in second : i < j

\* what a handler returns when it completes
HandlerValues == {o.output : o \in {x \in InvokeOutcomes : x.exc = ""}}

\* C15: in a run that located a command the steps come in the order command
\* event, global check, command checks, handler, after_command_invoke, each
\* at most once; after_command_invoke is dispatched only after both checks
\* passed and the handler completed, carries the handler's return value, and
\* that value is what process_commands returns.
C15_StepOrder ==
    Located =>
        /\ Cardinality(Dispatches("command")) = 1
        /\ \A call \in {"bot_check", "can_run", "invoke"} :
               Cardinality(Calls(call)) <= 1
        /\ Cardinality(Dispatches("after_command_invoke")) <= 1
        /\ Precede(Dispatches("command"), Calls("bot_check"))
        /\ Precede(Calls("bot_check"), Calls("can_run"))
        /\ Precede(Calls("can_run"), Calls("invoke"))
        /\ Precede(Calls("invoke"), Dispatches("after_command_invoke"))
        /\ Calls("can_run") # {} => Calls("bot_check") # {}
        /\ Calls("invoke") # {} => Calls("can_run") # {}
        /\ \A m \in Dispatches("after_command_invoke") :
               /\ \E i \in Calls("bot_check") : run.log[i].output = "True"
               /\ \E i \in Calls("can_run") : run.log[i].output = "True"
               /\ \E i \in Calls("invoke") :
                      /\ run.log[i].output \in HandlerValues
                      /\ run.log[m].output = run.log[i].output
               /\ run.log[m].command = run.command
               /\ run.pc = "done"
               /\ run.outcome = "returned"
               /\ run.output = run.log[m].output

\* a run whose handler returned a value that is not None
C15_Witness ==
    /\ Located
    /\ run.pc = "done"
    /\ \E m \in Dispatches("after_command_invoke") : run.log[m].output = "pong"
    /\ run.output = "pong"

\* a check failed or raised, or the handler raised, in the run in flight
ExecutionFailed ==
    /\ Located
    /\ \/ \E i \in Calls("bot_check") \cup Calls("can_run") :
              run.log[i].output # "True"
       \/ \E i \in Calls("invoke") : run.log[i].output \notin HandlerValues

\* C16 (as claimed): when a check fails or the handler raises, the command's
\* error handler is called exactly once with the owning cog, or the client,
\* as owner; after it one command_error event is dispatched with the same
\* exception; after_command_invoke is not dispatched.
C16_ErrorRoute ==
    (ExecutionFailed /\ run.pc = "done") =>
        /\ Cardinality(Calls("error_handler")) = 1
        /\ \A i \in Calls("error_handler") :
               /\ run.log[i].command = run.command
               /\ run.log[i].owner = Owner(cog_of, run.command)
               /\ Cardinality(Dispatches("command_error")) = 1
               /\ \A j \in Dispatches("command_error") :
                      i < j /\ run.log[j].exc = run.log[i].exc
        /\ Dispatches("after_command_invoke") = {}

\* the coroutines that have located a command
LocatedRuns == {r \in {run, parked} : r.pc # "idle" /\ r.command # NoCommand}

\* the steps of a coroutine that act on a command
CommandSteps(r) ==
    {i \in DOMAIN r.log :
        \/ r.log[i].call \in {"bot_check", "can_run", "invoke",
                              "error_handler"}
        \/ r.log[i].call = "dispatch" /\ r.log[i].event # "command_error"}

\* C19: whatever the registry does between the awaits of a run, a run that
\* located a command c checks and invokes c, or calls c's error handler,
\* never another command's, and it does not fail because of the change:
\* it fails only when c's error handler raised.
C19_RunKeepsItsCommand ==
    \A r \in LocatedRuns :
        /\ \A i \in CommandSteps(r) : r.log[i].command = r.command
        /\ \A i \in DOMAIN r.log : r.log[i].exc # "KeyError"
        /\ (r.pc = "done" /\ r.outcome = "raised") =>
               /\ r.raised = "ErrorHandlerRaised"
               /\ \E i \in DOMAIN r.log :
                      /\ r.log[i].call = "error_handler"
                      /\ r.log[i].output = r.raised

\* two finished runs invoked the handlers of two different commands, one of
\* which the registry no longer holds under the name the run looked up
C19_Witness ==
    /\ run \in LocatedRuns
    /\ parked \in LocatedRuns
    /\ run.command # parked.command
    /\ run.pc = "done"
    /\ parked.pc = "done"
    /\ \E i \in DOMAIN run.log : run.log[i].call = "invoke"
    /\ \E i \in DOMAIN parked.log : parked.log[i].call = "invoke"
    /\ Lookup(run.command_name) # Found(run.command)

----------------------------------------------------------------------------
(* Claims about extensions *)

\* the last call was load_extension and the module it imported has no setup
LoadedWithoutSetup ==
    /\ last.op = "load_extension"
    /\ last.module.exists
    /\ ~last.module.setup

\* C10: load_extension of a module without setup raises MissingSetup, invokes
\* no entry point of the module, and leaves the extension table, the registry
\* and the cog table as they were.
C10_MissingSetup ==
    LoadedWithoutSetup =>
        /\ last.exc = "MissingSetup"
        /\ last.entries = <<>>
        /\ extensions = last.pre_extensions
        /\ all_commands = last.pre
        /\ cogs = last.pre_cogs

\* such a load, of a module that has a teardown, on a client that holds
\* another extension and its command
C10_Witness ==
    /\ LoadedWithoutSetup
    /\ last.module.teardown
    /\ extensions # <<>>
    /\ last.ext \notin DOMAIN extensions
    /\ DOMAIN all_commands # {HelpName}

\* reload_extension was called on a loaded extension and its load step failed
ReloadFailed ==
    /\ last.op = "reload_extension"
    /\ last.ext \in DOMAIN last.pre_extensions
    /\ last.exc # ""

\* C17 (as claimed): when the load step of reload_extension fails after the
\* unload step succeeded, none of the commands the extension had registered
\* remain in the registry.
C17_ReloadFailureDropsCommands ==
    (ReloadFailed /\ ModuleCommand(last.ext) \in commands(last.pre)) =>
        ModuleCommand(last.ext) \notin commands(all_commands)

\* C17 (amended): reload_extension unloads, then loads, and undoes nothing
\* when the load step fails: teardown, if the old module had one, has run;
\* after an import error or MissingSetup the extension is out of the table
\* and the registry is what teardown left, unchanged if there was none;
\* after a raising setup the extension is in the table, its command
\* registered again.
C17_ReloadNotAtomic ==
    ReloadFailed =>
        LET old == last.pre_extensions[last.ext]
            torn == IF old.teardown THEN <<"teardown">> ELSE <<>>
        IN  /\ last.exc \in {"ModuleNotFoundError", "MissingSetup",
                             "SetupRaised"}
            /\ IF last.exc = "SetupRaised"
               THEN /\ last.entries = torn \o <<"setup">>
                    /\ last.ext \in DOMAIN extensions
                    /\ ModuleCommand(last.ext) \in commands(all_commands)
               ELSE /\ last.entries = torn
                    /\ last.ext \notin DOMAIN extensions
                    /\ all_commands =
                           IF old.teardown
                           THEN RunTeardown(case_insensitive, last.pre,
                                            last.ext)
                           ELSE last.pre

\* a reload failed at import or at the setup test, the old module had no
\* teardown, and the command it had registered is still in the registry
C17_Witness ==
    /\ ReloadFailed
    /\ last.exc \in {"ModuleNotFoundError", "MissingSetup"}
    /\ ~last.pre_extensions[last.ext].teardown
    /\ ModuleCommand(last.ext) \in commands(last.pre)
    /\ ModuleCommand(last.ext) \in commands(all_commands)

\* C20: load_extension records the module before it calls setup: during
\* setup get_extension(name) returns the module, and when setup raises the
\* error reaches the caller while the module stays recorded together with
\* what setup registered before it failed.
C20_RecordedBeforeSetup ==
    (last.op = "load_extension" /\ last.entries = <<"setup">>) =>
        /\ last.seen = [exc |-> "", module |-> last.module]
        /\ last.exc = "SetupRaised" =>
               /\ get_extension(extensions, last.ext) =
                      [exc |-> "", module |-> last.module]
               /\ \A k \in KeysOf(ModuleCommand(last.ext)) :
                      Lookup(k) = Found(ModuleCommand(last.ext))

\* setup raised in load_extension and the module is in the extension table
C20_Witness ==
    /\ last.op = "load_extension"
    /\ last.exc = "SetupRaised"
    /\ last.seen.exc = ""
    /\ last.ext \in DOMAIN extensions

====
